---- MODULE Spec2Model ----
(***************************************************************************)
(* A model of lib/rules/no-use-before-define.js: the option parser, the    *)
(* binding classifiers, the self-initializer detector and the scope walk   *)
(* that reports references used before their definition.                   *)
(*                                                                         *)
(* The scope graph (scopes, variables, references, AST nodes) is the input *)
(* the rule receives from the parser and the scope analyzer.  It is drawn  *)
(* in the initial state and never changed by the rule.                     *)
(***************************************************************************)
EXTENDS Integers, Sequences, FiniteSets, TLC

VARIABLES
    scopes,       \* scope graph: scope index -> Scope (1 is context.getScope() at Program)
    options,      \* the parsed options closed over by create()
    pc,           \* "idle" | "walking" | "done": position of the Program handler
    stack,        \* call stack of findVariablesInScope: frames [scope, ref, child]
    diagnostics,  \* context.report calls of the current run, in order
    visits,       \* scope index -> number of findVariablesInScope calls on it
    examined,     \* reference id -> number of times the forEach callback ran on it
    previous,     \* the finished earlier run: [options, diagnostics], or NoRun
    input,        \* argument of the function applied on its own
    result        \* what it returned, or Pending

vars == <<scopes, options, pc, stack, diagnostics, visits, examined,
          previous, input, result>>

----------------------------------------------------------------------------
(* Bounds of the model. *)

\* reference identifiers end at an offset in 1..MaxPos
MaxPos == 4
\* a scope holds at most MaxRefs references in the multi-reference programs
MaxRefs == 2
\* longest parent chain enumerated for the self-initializer walk
MaxChain == 3

----------------------------------------------------------------------------
(* AST nodes. *)

\* null / undefined
NoNode == [type |-> "null"]

\* a sub-expression node, of which the rule reads only the range
Expr(s, e) == [type |-> "Expression", range |-> <<s, e>>]

\* a node of a parent chain, with the fields the rule reads
Node(t, i, r, k) == [type |-> t, init |-> i, right |-> r, kind |-> k]

Plain(t) == Node(t, NoNode, NoNode, "")

SENTINEL_TYPE(type) ==
    type \in {"FunctionDeclaration", "FunctionExpression",
              "ClassDeclaration", "ClassExpression",
              "ArrowFunctionExpression", "CatchClause",
              "ImportDeclaration", "ExportNamedDeclaration"}

FOR_IN_OF_TYPE(type) == type \in {"ForInStatement", "ForOfStatement"}

----------------------------------------------------------------------------
(* parseOptions *)

Undefined == [typeof |-> "undefined"]

\* typeof null is "object"
JsNull == [typeof |-> "object", null |-> TRUE]

Str(s) == [typeof |-> "string", value |-> s]

\* an options object; a field holds the JavaScript value "true", "false" or
\* "undefined" (the field is absent)
Obj(f, c, v, t) ==
    [typeof |-> "object", functions |-> f, classes |-> c, variables |-> v, typedefs |-> t]

FieldValues == {"true", "false", "undefined"}

\* the values create() can hand to parseOptions
RawOptions ==
    {Undefined, JsNull, Str("nofunc"), Str("other")}
        \cup {Obj(f, c, v, t) : f \in FieldValues, c \in FieldValues,
                                v \in FieldValues, t \in FieldValues}

\* x !== false
NotFalse(x) == x # "false"

AllEnabled == [functions |-> TRUE, classes |-> TRUE, variables |-> TRUE, typedefs |-> TRUE]

parseOptionsTruthy(opts) ==
    IF opts.typeof = "string"
    THEN [AllEnabled EXCEPT !.functions = opts.value # "nofunc"]
    ELSE IF opts.typeof = "object" /\ opts # JsNull
    THEN [functions |-> opts.functions = "true", classes |-> opts.classes = "true",
          variables |-> opts.variables = "true", typedefs |-> opts.typedefs = "true"]
    ELSE AllEnabled

parseOptions(opts) ==
    IF opts.typeof = "string"
    THEN [AllEnabled EXCEPT !.functions = opts.value # "nofunc"]
    ELSE IF opts.typeof = "object" /\ opts # JsNull
    THEN [functions |-> NotFalse(opts.functions), classes |-> NotFalse(opts.classes),
          variables |-> NotFalse(opts.variables), typedefs |-> NotFalse(opts.typedefs)]
    ELSE AllEnabled

\* every policy create() can close over
Policies == {parseOptions(o) : o \in RawOptions}

----------------------------------------------------------------------------
(* Binding classifiers.  A Variable is [defs, identifiers, scope]; a        *)
(* Reference is [identifier, resolved, init, from]; scope fields hold the   *)
(* index of the scope in the scope graph.                                   *)

\* reference.resolved of an unresolved reference
Null == [type |-> "null"]

isTopLevelScope(scope) == scope.type = "module" \/ scope.type = "global"

isFunction(variable) == variable.defs[1].type = "FunctionName"

isOuterClass(variable, reference) ==
    IF variable.defs[1].type # "ClassName" THEN FALSE
    ELSE IF /\ scopes[variable.scope].variableScope = scopes[reference.from].variableScope
            /\ ~isTopLevelScope(scopes[scopes[variable.scope].variableScope])
    THEN FALSE
    ELSE TRUE

isOuterVariable(variable, reference) ==
    IF variable.defs[1].type # "Variable" THEN FALSE
    ELSE IF /\ scopes[variable.scope].variableScope = scopes[reference.from].variableScope
            /\ ~isTopLevelScope(scopes[scopes[variable.scope].variableScope])
    THEN FALSE
    ELSE TRUE

isType(variable) ==
    /\ variable.defs[1].type = "Variable"
    /\ variable.defs[1].parent.kind = "type"

isForbiddenTypedefsLast(variable, reference) ==
    IF isFunction(variable) THEN options.functions
    ELSE IF isOuterClass(variable, reference) THEN options.classes
    ELSE IF isOuterVariable(variable, reference) THEN options.variables
    ELSE IF isType(variable) /\ ~options.typedefs THEN FALSE
    ELSE TRUE

isForbiddenTypedefsInverted(variable, reference) ==
    IF isFunction(variable) THEN options.functions
    ELSE IF isOuterClass(variable, reference) THEN options.classes
    ELSE IF isType(variable) /\ options.typedefs THEN FALSE
    ELSE IF isOuterVariable(variable, reference) THEN options.variables
    ELSE TRUE

isForbidden(variable, reference) ==
    IF isFunction(variable) THEN options.functions
    ELSE IF isOuterClass(variable, reference) THEN options.classes
    ELSE IF isType(variable) /\ ~options.typedefs THEN FALSE
    ELSE IF isOuterVariable(variable, reference) THEN options.variables
    ELSE TRUE

----------------------------------------------------------------------------
(* Self-initializer detection. *)

isInRange(node, location) ==
    /\ node # NoNode
    /\ node.range[1] <= location
    /\ location <= node.range[2]

RECURSIVE ParentWalkStopsAtPattern(_, _, _)
ParentWalkStopsAtPattern(chain, i, location) ==
    IF i > Len(chain) THEN FALSE
    ELSE IF chain[i].type = "VariableDeclarator"
    THEN \/ isInRange(chain[i].init, location)
         \/ /\ FOR_IN_OF_TYPE(chain[i + 2].type)
            /\ isInRange(chain[i + 2].right, location)
    ELSE IF chain[i].type = "AssignmentPattern"
    THEN isInRange(chain[i].right, location)
    ELSE IF SENTINEL_TYPE(chain[i].type) THEN FALSE
    ELSE ParentWalkStopsAtPattern(chain, i + 1, location)

\* The while loop of isInInitializer: chain[i] is the current node, chain[i + 1]
\* its parent; past the end of the chain the node is null.
RECURSIVE ParentWalk(_, _, _)
ParentWalk(chain, i, location) ==
    IF i > Len(chain) THEN FALSE
    ELSE IF chain[i].type = "VariableDeclarator"
    THEN \/ isInRange(chain[i].init, location)
         \/ /\ FOR_IN_OF_TYPE(chain[i + 2].type)
            /\ isInRange(chain[i + 2].right, location)
    ELSE IF chain[i].type = "AssignmentPattern"
    THEN \/ isInRange(chain[i].right, location)
         \/ ParentWalk(chain, i + 1, location)
    ELSE IF SENTINEL_TYPE(chain[i].type) THEN FALSE
    ELSE ParentWalk(chain, i + 1, location)

isInInitializerAnyScope(variable, reference) ==
    ParentWalk(variable.identifiers[1].parent, 1, reference.identifier.range[2])

isInInitializer(variable, reference) ==
    IF variable.scope # reference.from THEN FALSE
    ELSE ParentWalk(variable.identifiers[1].parent, 1, reference.identifier.range[2])

----------------------------------------------------------------------------
(* The scope graphs handed to the rule.                                     *)

\* childScopes of scopes 1, 2, 3: a chain, and a fork in both orders
Trees == { << <<2>>, <<3>>, <<>> >>, << <<2, 3>>, <<>>, <<>> >>, << <<3, 2>>, <<>>, <<>> >> }

\* the kinds of scopes 1, 2, 3: the root is the global scope; "inner" is a
\* scope that is not a variable scope (block, class, catch, ...)
ScopeKinds == { <<"global", a, b>> : a \in {"module", "function", "inner"},
                                     b \in {"function", "inner"} }

ParentOf(tree, s) ==
    IF \E p \in DOMAIN tree : \E k \in DOMAIN tree[p] : tree[p][k] = s
    THEN CHOOSE p \in DOMAIN tree : \E k \in DOMAIN tree[p] : tree[p][k] = s
    ELSE 0

\* scope.variableScope: the scope itself when it is a global, module or
\* function scope, else that of its parent
RECURSIVE VariableScopeOf(_, _, _)
VariableScopeOf(tree, kinds, s) ==
    IF kinds[s] \in {"global", "module", "function"} THEN s
    ELSE VariableScopeOf(tree, kinds, ParentOf(tree, s))

\* scope s is scope outer or lies below it
RECURSIVE Within(_, _, _)
Within(tree, outer, s) ==
    IF s = outer THEN TRUE
    ELSE IF ParentOf(tree, s) = 0 THEN FALSE
    ELSE Within(tree, outer, ParentOf(tree, s))

\* offsets of the declared name and of its initializer / default / iterated
\* expression, and of the initializer of an enclosing declarator
DeclRange == <<1, 2>>
InitRange == <<3, 3>>
OuterInitRange == <<4, 4>>

Def(t, k) == [type |-> t, parent |-> Node("VariableDeclaration", NoNode, NoNode, k)]

DefNoParent(t) == [type |-> t, parent |-> NoNode]

Declarator(init) == Node("VariableDeclarator", init, NoNode, "")

Declared(def, chain) ==
    [defs |-> <<def>>, identifiers |-> << [range |-> DeclRange, parent |-> chain] >>]

\* the declaration forms of the programs: the binding's defs and identifiers,
\* with the parent chain of identifiers[0]
DeclForms ==
    [ function  |-> Declared(DefNoParent("FunctionName"),          \* function a() {}
                             <<Plain("FunctionDeclaration"), Plain("Program")>>),
      class     |-> Declared(DefNoParent("ClassName"),             \* class a {}
                             <<Plain("ClassDeclaration"), Plain("Program")>>),
      var       |-> Declared(Def("Variable", "let"),               \* let a = <init>
                             <<Declarator(Expr(InitRange[1], InitRange[2])),
                               Node("VariableDeclaration", NoNode, NoNode, "let"),
                               Plain("Program")>>),
      forin     |-> Declared(Def("Variable", "let"),               \* for (let a in <right>)
                             <<Declarator(NoNode),
                               Node("VariableDeclaration", NoNode, NoNode, "let"),
                               Node("ForInStatement", NoNode,
                                    Expr(InitRange[1], InitRange[2]), "")>>),
      typealias |-> Declared(Def("Variable", "type"),              \* type a = <init>
                             <<Declarator(Expr(InitRange[1], InitRange[2])),
                               Node("VariableDeclaration", NoNode, NoNode, "type"),
                               Plain("Program")>>),
      pattern   |-> Declared(Def("Variable", "let"),               \* let [a = <right>] = <init>
                             <<Node("AssignmentPattern", NoNode,
                                    Expr(InitRange[1], InitRange[2]), ""),
                               Plain("ArrayPattern"),
                               Declarator(Expr(OuterInitRange[1], OuterInitRange[2])),
                               Node("VariableDeclaration", NoNode, NoNode, "let"),
                               Plain("Program")>>),
      param     |-> Declared(DefNoParent("Parameter"),             \* function f(a) {}
                             <<Plain("FunctionDeclaration"), Plain("Program")>>),
      default   |-> Declared(DefNoParent("Parameter"),             \* function f({a = <right>}) {}
                             <<Node("AssignmentPattern", NoNode,
                                    Expr(InitRange[1], InitRange[2]), ""),
                               Plain("Property"), Plain("ObjectPattern"),
                               Plain("FunctionDeclaration"), Plain("Program")>>),
      import    |-> Declared([type |-> "ImportBinding",            \* import a from "m"
                              parent |-> Plain("ImportDeclaration")],
                             <<Plain("ImportDefaultSpecifier"),
                               Plain("ImportDeclaration"), Plain("Program")>>),
      catch     |-> Declared(DefNoParent("CatchClause"),           \* catch (a) {}
                             <<Plain("CatchClause"), Plain("TryStatement"),
                               Plain("Program")>>),
      implicit  |-> [defs |-> <<>>, identifiers |-> <<>>] ]       \* a global of the environment

\* the kinds of scope a declaration form can be declared in
FormFits(form, kind) ==
    CASE form \in {"param", "default"} -> kind = "function"
      [] form = "import" -> kind = "module"
      [] form = "catch" -> kind = "inner"
      [] form = "implicit" -> kind = "global"
      [] OTHER -> TRUE

\* the Variable of a declaration form, declared in scope s
Variable(form, s) ==
    [defs |-> DeclForms[form].defs, identifiers |-> DeclForms[form].identifiers, scope |-> s]

\* a Reference in scope s, with identity id, its identifier ending at offset e
Reference(id, s, e, resolved, init) ==
    [identifier |-> [type |-> "Identifier", name |-> "a", range |-> <<e - 1, e>>, id |-> id],
     resolved |-> resolved, init |-> init, from |-> s]

\* the kinds of reference to a variable: where the identifier ends, whether
\* it resolves to the variable, whether it is the initializing write
RefKinds == [end : 1..MaxPos, resolved : BOOLEAN, init : BOOLEAN]

\* an initializing write belongs to a declaration of the variable and does
\* not precede the variable's first declared name
RefFits(k, form) ==
    k.init => (k.resolved /\ form # "implicit" /\ k.end >= DeclRange[2])

\* scope.type: an inner scope is the class scope of the class or the catch
\* scope of the catch binding it declares, else a block scope
ScopeType(kinds, s, form, vs) ==
    IF kinds[s] # "inner" THEN kinds[s]
    ELSE IF s = vs /\ form \in {"class", "catch"} THEN form
    ELSE "block"

\* the scope graph of tree and kinds, with the variable of form declared in
\* scope vs, whose scope s holds the references of kinds layout[s]; only
\* those made in or below vs resolve to the variable
Graph(tree, kinds, layout, form, vs) ==
    [s \in DOMAIN tree |->
        [type |-> ScopeType(kinds, s, form, vs),
         variableScope |-> VariableScopeOf(tree, kinds, s),
         childScopes |-> tree[s],
         references |->
            [i \in DOMAIN layout[s] |->
                Reference(<<s, i>>, s, layout[s][i].end,
                          IF layout[s][i].resolved /\ Within(tree, vs, s)
                          THEN Variable(form, vs) ELSE Null,
                          layout[s][i].init)]]]

\* every reference of the graph
References ==
    UNION {{scopes[s].references[i] : i \in DOMAIN scopes[s].references} : s \in DOMAIN scopes}

----------------------------------------------------------------------------
(* The walk: create(), the Program handler and findVariablesInScope.        *)

NoRun == [options |-> Null, diagnostics |-> <<>>]

\* the function has not returned yet
Pending == [type |-> "pending"]

Returned(value) == [type |-> "returned", value |-> value]

\* a call of findVariablesInScope(scope), about to run the forEach callback
\* on scope.references[ref], or to recurse into scope.childScopes[child]
Frame(scope) == [scope |-> scope, ref |-> 1, child |-> 1]

Top == stack[Len(stack)]

TopScope == scopes[Top.scope]

InReferences ==
    /\ pc = "walking"
    /\ Top.ref <= Len(TopScope.references)

InChildScopes ==
    /\ pc = "walking"
    /\ Top.ref > Len(TopScope.references)

\* the condition of the if statement of the forEach callback
ShouldSkipEndsAtOrBefore(reference) ==
    IF reference.init THEN TRUE
    ELSE IF reference.resolved = Null THEN TRUE
    ELSE IF Len(reference.resolved.identifiers) = 0 THEN TRUE
    ELSE IF /\ reference.resolved.identifiers[1].range[2] <= reference.identifier.range[2]
            /\ ~isInInitializer(reference.resolved, reference) THEN TRUE
    ELSE ~isForbidden(reference.resolved, reference)

ShouldSkipOrderReversed(reference) ==
    IF reference.init THEN TRUE
    ELSE IF reference.resolved = Null THEN TRUE
    ELSE IF Len(reference.resolved.identifiers) = 0 THEN TRUE
    ELSE IF /\ reference.resolved.identifiers[1].range[2] > reference.identifier.range[2]
            /\ ~isInInitializer(reference.resolved, reference) THEN TRUE
    ELSE ~isForbidden(reference.resolved, reference)

ShouldSkipIgnoresInit(reference) ==
    IF reference.resolved = Null THEN TRUE
    ELSE IF Len(reference.resolved.identifiers) = 0 THEN TRUE
    ELSE IF /\ reference.resolved.identifiers[1].range[2] < reference.identifier.range[2]
            /\ ~isInInitializer(reference.resolved, reference) THEN TRUE
    ELSE ~isForbidden(reference.resolved, reference)

ShouldSkip(reference) ==
    IF reference.init THEN TRUE
    ELSE IF reference.resolved = Null THEN TRUE
    ELSE IF Len(reference.resolved.identifiers) = 0 THEN TRUE
    ELSE IF /\ reference.resolved.identifiers[1].range[2] < reference.identifier.range[2]
            /\ ~isInInitializer(reference.resolved, reference) THEN TRUE
    ELSE ~isForbidden(reference.resolved, reference)

Diagnostic(reference) ==
    [node |-> reference.identifier,
     message |-> "'{{name}}' was used before it was defined.",
     data |-> reference.identifier]

NextReference == [stack EXCEPT ![Len(stack)].ref = @ + 1]

\* Program(): findVariablesInScope(context.getScope())
Program ==
    /\ pc = "idle"
    /\ pc' = "walking"
    /\ stack' = <<Frame(1)>>
    /\ visits' = [visits EXCEPT ![1] = @ + 1]
    /\ UNCHANGED <<scopes, options, diagnostics, examined, previous, input, result>>

\* the forEach callback returns without reporting
SkipReference ==
    /\ InReferences
    /\ ShouldSkip(TopScope.references[Top.ref])
    /\ stack' = NextReference
    /\ examined' = [examined EXCEPT ![TopScope.references[Top.ref].identifier.id] = @ + 1]
    /\ UNCHANGED <<scopes, options, pc, diagnostics, visits, previous, input, result>>

ReportFirst ==
    /\ InReferences
    /\ ~ShouldSkip(TopScope.references[Top.ref])
    /\ diagnostics' = <<Diagnostic(TopScope.references[Top.ref])>> \o diagnostics
    /\ stack' = NextReference
    /\ examined' = [examined EXCEPT ![TopScope.references[Top.ref].identifier.id] = @ + 1]
    /\ UNCHANGED <<scopes, options, pc, visits, previous, input, result>>

\* the forEach callback reaches context.report
Report ==
    /\ InReferences
    /\ ~ShouldSkip(TopScope.references[Top.ref])
    /\ diagnostics' = Append(diagnostics, Diagnostic(TopScope.references[Top.ref]))
    /\ stack' = NextReference
    /\ examined' = [examined EXCEPT ![TopScope.references[Top.ref].identifier.id] = @ + 1]
    /\ UNCHANGED <<scopes, options, pc, visits, previous, input, result>>

\* scope.childScopes.forEach(findVariablesInScope): the next recursive call
EnterChildScope ==
    /\ InChildScopes
    /\ Top.child <= Len(TopScope.childScopes)
    /\ stack' = Append([stack EXCEPT ![Len(stack)].child = @ + 1],
                       Frame(TopScope.childScopes[Top.child]))
    /\ visits' = [visits EXCEPT ![TopScope.childScopes[Top.child]] = @ + 1]
    /\ UNCHANGED <<scopes, options, pc, diagnostics, examined, previous, input, result>>

ReturnToProgram ==
    /\ InChildScopes
    /\ Top.child > Len(TopScope.childScopes)
    /\ stack' = <<>>
    /\ pc' = "done"
    /\ UNCHANGED <<scopes, options, diagnostics, visits, examined, previous, input, result>>

\* findVariablesInScope returns; the Program handler returns with the last frame
Return ==
    /\ InChildScopes
    /\ Top.child > Len(TopScope.childScopes)
    /\ stack' = SubSeq(stack, 1, Len(stack) - 1)
    /\ pc' = IF Len(stack) = 1 THEN "done" ELSE "walking"
    /\ UNCHANGED <<scopes, options, diagnostics, visits, examined, previous, input, result>>

\* the same file is linted again: create() with the same configuration or
\* one that disables more categories, then Program()
ProgramAgain ==
    /\ pc = "done"
    /\ previous = NoRun
    /\ previous' = [options |-> options, diagnostics |-> diagnostics]
    /\ \E raw \in RawOptions :
          /\ \A flag \in DOMAIN options : parseOptions(raw)[flag] => options[flag]
          /\ options' = parseOptions(raw)
    /\ pc' = "walking"
    /\ stack' = <<Frame(1)>>
    /\ diagnostics' = <<>>
    /\ visits' = [s \in DOMAIN scopes |-> IF s = 1 THEN 1 ELSE 0]
    /\ examined' = [id \in DOMAIN examined |-> 0]
    /\ UNCHANGED <<scopes, input, result>>

\* the state before Program() of a lint of the given scope graph
Start(graph, policy, in) ==
    /\ scopes = graph
    /\ options = policy
    /\ pc = "idle"
    /\ stack = <<>>
    /\ diagnostics = <<>>
    /\ visits = [s \in DOMAIN graph |-> 0]
    /\ examined = [id \in {<<s, i>> : s \in DOMAIN graph, i \in 1..MaxRefs} |-> 0]
    /\ previous = NoRun
    /\ input = in
    /\ result = Pending

\* programs with one binding and at most one reference to examine, of any
\* kind, in any scope
Init ==
    \E tree \in Trees, kinds \in ScopeKinds, form \in DOMAIN DeclForms,
       vs \in 1..3, rs \in 1..3, refs \in {<<>>} \cup {<<k>> : k \in RefKinds},
       policy \in Policies :
        /\ FormFits(form, kinds[vs])
        /\ \A i \in DOMAIN refs :
              /\ RefFits(refs[i], form)
              /\ refs[i].resolved => Within(tree, vs, rs)
        /\ Start(Graph(tree, kinds, [s \in 1..3 |-> IF s = rs THEN refs ELSE <<>>], form, vs),
                 policy, Null)

\* reference lists of up to MaxRefs uses of the binding, each ending before
\* the declared name or inside its initializer
UseLists ==
    UNION {[1..n -> {[end |-> e, resolved |-> TRUE, init |-> FALSE] : e \in {1, InitRange[2]}}]
             : n \in 1..MaxRefs}

\* programs whose three scopes each hold the same list of uses of the name
\* of one binding
InitUses ==
    \E tree \in Trees, kinds \in ScopeKinds,
       form \in {"function", "class", "var", "typealias", "param"},
       vs \in 1..2, uses \in UseLists, policy \in Policies :
        /\ FormFits(form, kinds[vs])
        /\ Start(Graph(tree, kinds, [s \in 1..3 |-> uses], form, vs), policy, Null)

Next == Program \/ SkipReference \/ Report \/ EnterChildScope \/ Return

\* one lint of a program
Spec == (Init \/ InitUses) /\ [][Next]_vars

\* the walk is synchronous: a step that can be taken is taken
FairSpec == Spec /\ WF_vars(Next)

NextRuns == Next \/ ProgramAgain

\* two lints of the same program
SpecRuns == InitUses /\ [][NextRuns]_vars

----------------------------------------------------------------------------
(* The pure functions, applied to inputs drawn in the initial state.        *)

\* isForbidden(variable, reference) on a reference of the program that
\* resolves to a declared variable
CallIsForbidden ==
    /\ result = Pending
    /\ \E r \in References :
          /\ r.resolved # Null
          /\ Len(r.resolved.defs) > 0
          /\ input' = r
          /\ result' = Returned(isForbidden(r.resolved, r))
    /\ UNCHANGED <<scopes, options, pc, stack, diagnostics, visits, examined, previous>>

SpecForbidden == Init /\ [][CallIsForbidden]_vars

\* the node types that may lie between a declared name and its declarator
ChainNodes ==
    {Node("AssignmentPattern", NoNode, Expr(r[1], r[2]), "") : r \in {<<2, 3>>, OuterInitRange}}
        \cup {Plain(t) : t \in {"Property",
                                "FunctionDeclaration", "FunctionExpression",
                                "ClassDeclaration", "ClassExpression",
                                "ArrowFunctionExpression", "CatchClause",
                                "ImportDeclaration", "ExportNamedDeclaration"}}

\* a declarator with its declaration and the statement holding it, or nothing
ChainTails ==
    {<<>>} \cup
    {<<Declarator(i), Node("VariableDeclaration", NoNode, NoNode, "let"), stmt>> :
        i \in {NoNode, Expr(2, 3)},
        stmt \in {Plain("Program")} \cup
                 {Node(t, NoNode, Expr(OuterInitRange[1], OuterInitRange[2]), "")
                    : t \in {"ForInStatement", "ForOfStatement"}}}

\* parent chains of identifiers[0]: up to MaxChain nodes, then a tail; and
\* the chains of the declaration forms
Chains ==
    {p \o t : p \in UNION {[1..n -> ChainNodes] : n \in 0..MaxChain}, t \in ChainTails}
        \cup {DeclForms[f].identifiers[1].parent : f \in DOMAIN DeclForms \ {"implicit"}}

InitChains ==
    \E chain \in Chains, location \in 1..MaxPos, vs \in 1..2 :
        Start(<<>>, AllEnabled,
              [variable |-> [defs |-> <<DefNoParent("Parameter")>>,
                             identifiers |-> <<[range |-> DeclRange, parent |-> chain]>>,
                             scope |-> vs],
               reference |-> Reference(<<1, 1>>, 1, location, Null, FALSE)])

CallIsInInitializer ==
    /\ result = Pending
    /\ result' = Returned(isInInitializer(input.variable, input.reference))
    /\ UNCHANGED <<scopes, options, pc, stack, diagnostics, visits, examined, previous, input>>

SpecInitializer == InitChains /\ [][CallIsInInitializer]_vars

InitOptions == \E raw \in RawOptions : Start(<<>>, Null, raw)

\* create(context): options = parseOptions(...)
Create ==
    /\ options = Null
    /\ options' = parseOptions(input)
    /\ UNCHANGED <<scopes, pc, stack, diagnostics, visits, examined, previous, input, result>>

SpecOptions == InitOptions /\ [][Create]_vars

----------------------------------------------------------------------------
(* Properties. *)

Done == pc = "done"

\* the identities of the identifier nodes of a diagnostic sequence
ReportedIds(ds) == {ds[i].node.id : i \in DOMAIN ds}

IsReported(r) == r.identifier.id \in ReportedIds(diagnostics)

TimesReported(r) == Cardinality({i \in DOMAIN diagnostics : diagnostics[i].node = r.identifier})

DeclEnd(r) == r.resolved.identifiers[1].range[2]

UseEnd(r) == r.identifier.range[2]

\* the reference resolves to a variable with a declared identifier
Declared1(r) == r.resolved # Null /\ Len(r.resolved.identifiers) > 0

Eligible(r) ==
    /\ ~r.init
    /\ Declared1(r)
    /\ isForbidden(r.resolved, r)
    /\ (DeclEnd(r) >= UseEnd(r) \/ isInInitializer(r.resolved, r))

\* C1: every diagnostic is for a reference that is not an initialization,
\* resolves to a variable with an identifier, is forbidden by the options and
\* either does not end after the end of the declared name or lies in the
\* variable's initializer; and when the walk is over every such reference
\* has been reported.
C1_ReportsExactlyEligible ==
    /\ \A i \in DOMAIN diagnostics :
          \E r \in References : diagnostics[i].node = r.identifier /\ Eligible(r)
    /\ Done => \A r \in References : Eligible(r) => IsReported(r)

\* a reference that ends after the declared name was reported, as a
\* self-initializer, and another kind of program ended without a report
C1_Witness ==
    /\ Done
    /\ \E r \in References : IsReported(r) /\ DeclEnd(r) < UseEnd(r)

----------------------------------------------------------------------------

\* the variable scopes of the declaration and of the use differ, or the
\* shared one is the global or module scope
OuterOrTopLevel(v, r) ==
    \/ scopes[v.scope].variableScope # scopes[r.from].variableScope
    \/ scopes[scopes[v.scope].variableScope].type \in {"global", "module"}

\* the first-match-wins order of the classifier
Classified(v, r) ==
    CASE v.defs[1].type = "FunctionName" -> options.functions
      [] v.defs[1].type = "ClassName" /\ OuterOrTopLevel(v, r) -> options.classes
      [] v.defs[1].type = "ClassName" -> TRUE
      [] v.defs[1].type = "Variable" ->
            IF v.defs[1].parent.kind = "type" /\ ~options.typedefs THEN FALSE
            ELSE IF OuterOrTopLevel(v, r) THEN options.variables
            ELSE TRUE
      [] OTHER -> TRUE

AlwaysForbiddenKinds == {"Parameter", "CatchClause", "ImportBinding"}

IsCalled == result # Pending

\* C2 as stated: isForbidden follows the priority order, and a parameter,
\* catch or import binding and every class or variable binding used in its
\* own variable scope, when that is not a top-level scope, is forbidden under
\* every policy, and a function binding is not forbidden when functions is
\* false.
C2_AsStated ==
    IsCalled =>
        /\ result.value = Classified(input.resolved, input)
        /\ input.resolved.defs[1].type \in AlwaysForbiddenKinds => result.value
        /\ (/\ input.resolved.defs[1].type \in {"ClassName", "Variable"}
            /\ ~OuterOrTopLevel(input.resolved, input)) => result.value
        /\ (input.resolved.defs[1].type = "FunctionName" /\ ~options.functions)
              => ~result.value

\* C2 (amended): as stated, except that a variable binding of kind 'type' is
\* not forbidden when typedefs is false, also when it is used in its own
\* variable scope that is not a top-level scope.
C2_Classifier ==
    IsCalled =>
        /\ result.value = Classified(input.resolved, input)
        /\ input.resolved.defs[1].type \in AlwaysForbiddenKinds => result.value
        /\ (/\ input.resolved.defs[1].type \in {"ClassName", "Variable"}
            /\ ~OuterOrTopLevel(input.resolved, input)
            /\ ~(/\ input.resolved.defs[1].type = "Variable"
                 /\ input.resolved.defs[1].parent.kind = "type"
                 /\ ~options.typedefs)) => result.value
        /\ (/\ input.resolved.defs[1].type = "Variable"
            /\ input.resolved.defs[1].parent.kind = "type"
            /\ ~options.typedefs) => ~result.value
        /\ (input.resolved.defs[1].type = "FunctionName" /\ ~options.functions)
              => ~result.value

\* a type alias used in the function scope that declares it, typedefs off
C2_Witness ==
    /\ IsCalled
    /\ input.resolved.defs[1].type = "Variable"
    /\ input.resolved.defs[1].parent.kind = "type"
    /\ ~OuterOrTopLevel(input.resolved, input)
    /\ ~options.typedefs
    /\ options.variables
    /\ ~result.value

----------------------------------------------------------------------------

Children(s) == {scopes[s].childScopes[k] : k \in DOMAIN scopes[s].childScopes}

\* the use of class C in a method of C: a reference in a function scope
\* directly inside the class scope, to the ClassName binding, ending after
\* the class name
ClassSelfReference(r) ==
    /\ ~r.init
    /\ Declared1(r)
    /\ r.resolved.defs[1].type = "ClassName"
    /\ r.resolved.identifiers[1].parent[1].type = "ClassDeclaration"
    /\ scopes[r.resolved.scope].type = "class"
    /\ scopes[r.from].type = "function"
    /\ r.from \in Children(r.resolved.scope)
    /\ DeclEnd(r) < UseEnd(r)

\* C3 as stated: the use of C inside a method of class C gets exactly one
\* diagnostic, whatever policy.classes is.
C3_AsStated ==
    Done => \A r \in References : ClassSelfReference(r) => TimesReported(r) = 1

\* C3 (amended): the use of C inside a method of class C gets no diagnostic,
\* whatever policy.classes is: the class name ends before the use and the use
\* is not in an initializer of C.
C3_NoDiagnostic ==
    Done => \A r \in References : ClassSelfReference(r) => TimesReported(r) = 0

C3_Witness ==
    /\ Done
    /\ options.classes
    /\ \E r \in References : ClassSelfReference(r) /\ examined[r.identifier.id] = 1

----------------------------------------------------------------------------

\* C4: no diagnostic is for a reference that is an initialization, that is
\* unresolved, or whose variable has no identifiers.
C4_NeverReported ==
    \A r \in References :
        (r.init \/ r.resolved = Null \/ Len(r.resolved.identifiers) = 0) => ~IsReported(r)

\* an initialization that would be reported if it were a plain use
C4_Witness ==
    /\ Done
    /\ \E r \in References :
          /\ r.init
          /\ Declared1(r)
          /\ DeclEnd(r) >= UseEnd(r)
          /\ isForbidden(r.resolved, r)
          /\ examined[r.identifier.id] = 1

----------------------------------------------------------------------------

\* C5: for a reference made in another scope than the one that declares its
\* variable, isInInitializer is false, the reference is reported exactly
\* when it is not an initialization, the declared name does not end before
\* it and it is forbidden, and so never when the declared name ends before it.
C5_OuterBinding ==
    \A r \in References :
        (Declared1(r) /\ r.resolved.scope # r.from) =>
            /\ ~isInInitializer(r.resolved, r)
            /\ Done => (IsReported(r) <=>
                          (~r.init /\ DeclEnd(r) >= UseEnd(r) /\ isForbidden(r.resolved, r)))
            /\ DeclEnd(r) < UseEnd(r) => ~IsReported(r)

\* a forbidden use from an inner scope that lies inside the initializer of
\* the outer declaration and is not reported
C5_Witness ==
    /\ Done
    /\ \E r \in References :
          /\ Declared1(r)
          /\ r.resolved.scope # r.from
          /\ ~r.init
          /\ ParentWalk(r.resolved.identifiers[1].parent, 1, UseEnd(r))
          /\ isForbidden(r.resolved, r)
          /\ ~IsReported(r)

----------------------------------------------------------------------------

\* C6: the walk terminates, and then every scope has been visited exactly
\* once, every reference examined exactly once and none reported twice.
C6_VisitsOnce ==
    /\ <>Done
    /\ [](Done =>
            /\ \A s \in DOMAIN scopes : visits[s] = 1
            /\ \A r \in References :
                  examined[r.identifier.id] = 1 /\ TimesReported(r) <= 1)

\* a finished walk of a forked tree with several references and reports
C6_Witness ==
    /\ Done
    /\ Len(scopes[1].childScopes) = 2
    /\ Cardinality(References) >= 4
    /\ Len(diagnostics) >= 2

----------------------------------------------------------------------------

RECURSIVE PreOrder(_), PreOrderOfAll(_)
\* the reference identities of the subtree of scope s, the scope's own
\* references first, then those of its child scopes in childScopes order
PreOrder(s) ==
    [i \in DOMAIN scopes[s].references |-> scopes[s].references[i].identifier.id]
        \o PreOrderOfAll(scopes[s].childScopes)

PreOrderOfAll(children) ==
    IF children = <<>> THEN <<>>
    ELSE PreOrder(Head(children)) \o PreOrderOfAll(Tail(children))

\* the place of a reference identity in a listing
Rank(order, id) == CHOOSE k \in DOMAIN order : order[k] = id

\* C7: diagnostics appear in scope-tree pre-order and, within a scope, in the
\* order of scope.references; a second walk of the same graph under the same
\* options emits the same sequence.
C7_OrderStable ==
    /\ Len(diagnostics) > 1 =>
          LET order == PreOrder(1) IN
            \A i \in 1..(Len(diagnostics) - 1) :
                Rank(order, diagnostics[i].node.id) < Rank(order, diagnostics[i + 1].node.id)
    /\ (Done /\ previous # NoRun /\ previous.options = options)
          => diagnostics = previous.diagnostics

\* a repeated walk with two reports from one scope and reports from two scopes
C7_Witness ==
    /\ Done
    /\ previous # NoRun
    /\ previous.options = options
    /\ \E i, j \in DOMAIN diagnostics :
          i < j /\ diagnostics[i].node.id[1] = diagnostics[j].node.id[1]
    /\ \E i, j \in DOMAIN diagnostics :
          i < j /\ diagnostics[i].node.id[1] # diagnostics[j].node.id[1]

----------------------------------------------------------------------------

Flags == {"functions", "classes", "variables", "typedefs"}

\* C8: parseOptions yields four booleans; a field of an options object is
\* false exactly when it is explicitly false; "nofunc" disables functions
\* only; every other value enables all four.
C8_ParseOptions ==
    options # Null =>
        /\ options \in [Flags -> BOOLEAN]
        /\ (input.typeof = "object" /\ input # JsNull) =>
              \A flag \in Flags : options[flag] = FALSE <=> input[flag] = "false"
        /\ input = Str("nofunc") =>
              \A flag \in Flags : options[flag] = FALSE <=> flag = "functions"
        /\ (input \in {Undefined, JsNull} \/ (input.typeof = "string" /\ input # Str("nofunc")))
              => \A flag \in Flags : options[flag]

\* an object that disables classes and leaves functions unset
C8_Witness ==
    /\ options # Null
    /\ input.typeof = "object"
    /\ input # JsNull
    /\ input.functions = "undefined"
    /\ input.classes = "false"
    /\ options.functions
    /\ ~options.classes

----------------------------------------------------------------------------

\* the walk up the parent chain ends at the first of these
StopsWalk(node) ==
    node.type \in {"VariableDeclarator",
                   "FunctionDeclaration", "FunctionExpression", "ClassDeclaration",
                   "ClassExpression", "ArrowFunctionExpression", "CatchClause",
                   "ImportDeclaration", "ExportNamedDeclaration"}

\* the last node the walk tests
LastTested(chain) ==
    IF \E i \in DOMAIN chain : StopsWalk(chain[i])
    THEN CHOOSE i \in DOMAIN chain :
            StopsWalk(chain[i]) /\ \A j \in 1..(i - 1) : ~StopsWalk(chain[j])
    ELSE Len(chain)

Contains(node, location) ==
    node # NoNode /\ node.range[1] <= location /\ location <= node.range[2]

\* a tested node whose initializer, default or iterated expression holds location
MeetsInitializer(chain, location) ==
    \E j \in 1..LastTested(chain) :
        \/ chain[j].type = "AssignmentPattern" /\ Contains(chain[j].right, location)
        \/ /\ chain[j].type = "VariableDeclarator"
           /\ \/ Contains(chain[j].init, location)
              \/ /\ chain[j + 2].type \in {"ForInStatement", "ForOfStatement"}
                 /\ Contains(chain[j + 2].right, location)

\* C9: for a reference made in the scope that declares the variable,
\* isInInitializer is true exactly when the walk up the parent chain of
\* identifiers[0], which ends at the first declarator or sentinel, meets an
\* assignment pattern whose right side holds the end of the reference, or a
\* declarator whose init, or whose for-in/for-of statement's right side, holds it.
C9_InInitializer ==
    (IsCalled /\ input.variable.scope = input.reference.from) =>
        result.value = MeetsInitializer(input.variable.identifiers[1].parent,
                                        input.reference.identifier.range[2])

\* function f({a = a}) {}: found through the assignment pattern
C9_Witness ==
    /\ IsCalled
    /\ input.variable.scope = input.reference.from
    /\ input.variable.identifiers[1].parent = DeclForms["default"].identifiers[1].parent
    /\ result.value

----------------------------------------------------------------------------

\* C10: a walk under options that enable no category the options of an
\* earlier walk of the same graph left disabled reports no reference the
\* earlier walk did not report.
C10_Monotone ==
    (/\ Done
     /\ previous # NoRun
     /\ \A flag \in Flags : options[flag] => previous.options[flag])
        => ReportedIds(diagnostics) \subseteq ReportedIds(previous.diagnostics)

\* a second walk under fewer categories that reports less, but something
C10_Witness ==
    /\ Done
    /\ previous # NoRun
    /\ options # previous.options
    /\ diagnostics # <<>>
    /\ Len(diagnostics) < Len(previous.diagnostics)

====
